---- MODULE Spec2Model ----
(***************************************************************************)
(* Model of learn-fastmcp:                                                 *)
(*   - src/src/learn_fastmcp/config.py : MCPConfig, load_config            *)
(*   - src/src/learn_fastmcp/main.py   : parse_config, main, the tools     *)
(*   - src/main.py                     : the same tools                    *)
(* Python strings that the code inspects character by character (the       *)
(* transport, the port text) are sequences of one-character strings; the   *)
(* host is never inspected and stays an opaque string.                     *)
(***************************************************************************)
EXTENDS Integers, Sequences, FiniteSets, TLC

VARIABLES
    environ,        \* os.environ restricted to the MCP_* names (a dict)
    dotenv,         \* the content of the .env file (a dict, empty when no file)
    init_kwargs,    \* keyword arguments of the last MCPConfig(...) call
    settings,       \* outcome of the last MCPConfig(...) / load_config()
    run_config,     \* outcome of the last to_run_config()
    observed,       \* outcome of the last log_config() / repr()
    pc,             \* control point of main.py's main()
    parsed,         \* outcome of parse_config() inside main()
    parse_calls,    \* number of parse_config() calls made by main()
    run_calls,      \* keyword mappings app.run was called with, in order
    stdout,         \* lines printed by main()
    stderr,         \* diagnostics printed by main()
    exit_code,      \* process exit status (-1 while running)
    caught,         \* the exception main()'s except clause handles
    tasks           \* the tool invocations (async generators) of the server

vars == <<environ, dotenv, init_kwargs, settings, run_config, observed, pc, parsed,
          parse_calls, run_calls, stdout, stderr, exit_code, caught, tasks>>

configVars == <<init_kwargs, settings, run_config, observed>>
mainVars == <<pc, parsed, parse_calls, run_calls, stdout, stderr, exit_code, caught>>
inputVars == <<environ, dotenv>>

-----------------------------------------------------------------------------
(* Bounds of the model                                                     *)

\* most whitespace characters around a transport text (left + right)
MaxPad == 1
\* how far below / above each limit of the port range the port inputs go
PortSlack == 1
\* largest argument given to a tool
MaxStart == 5
\* most negative argument given to a tool is -MaxNeg
MaxNeg == 1

-----------------------------------------------------------------------------
(* Python text primitives                                                  *)

ascii_lowercase == <<"a","b","c","d","e","f","g","h","i","j","k","l","m",
                     "n","o","p","q","r","s","t","u","v","w","x","y","z">>
ascii_uppercase == <<"A","B","C","D","E","F","G","H","I","J","K","L","M",
                     "N","O","P","Q","R","S","T","U","V","W","X","Y","Z">>
ascii_digits == <<"0","1","2","3","4","5","6","7","8","9">>
whitespace == {" ", "\t", "\n"}

IndexOf(seq, c) == CHOOSE i \in 1..Len(seq) : seq[i] = c
Contains(seq, c) == \E i \in 1..Len(seq) : seq[i] = c

char_lower(c) ==
    IF Contains(ascii_uppercase, c) THEN ascii_lowercase[IndexOf(ascii_uppercase, c)] ELSE c
char_upper(c) ==
    IF Contains(ascii_lowercase, c) THEN ascii_uppercase[IndexOf(ascii_lowercase, c)] ELSE c

\* str.lower()
str_lower(s) == [i \in 1..Len(s) |-> char_lower(s[i])]

\* str.strip(): whitespace removed at both ends, never inside
RECURSIVE str_lstrip(_)
str_lstrip(s) ==
    IF Len(s) > 0 /\ s[1] \in whitespace THEN str_lstrip(Tail(s)) ELSE s
RECURSIVE str_rstrip(_)
str_rstrip(s) ==
    IF Len(s) > 0 /\ s[Len(s)] \in whitespace
    THEN str_rstrip(SubSeq(s, 1, Len(s) - 1)) ELSE s
str_strip(s) == str_rstrip(str_lstrip(s))

\* value of a sequence of decimal digits
RECURSIVE digits_value(_)
digits_value(s) ==
    IF Len(s) = 0 THEN 0
    ELSE 10 * digits_value(SubSeq(s, 1, Len(s) - 1))
         + (IndexOf(ascii_digits, s[Len(s)]) - 1)

\* int(text): surrounding whitespace and one sign are allowed, then at least
\* one decimal digit and nothing else; anything else raises ValueError.
py_int(text) ==
    LET t == str_strip(text)
        signed == Len(t) > 0 /\ t[1] \in {"+", "-"}
        body == IF signed THEN Tail(t) ELSE t
        wellformed == Len(body) > 0
                      /\ \A i \in 1..Len(body) : Contains(ascii_digits, body[i])
    IN IF wellformed
       THEN [ok |-> TRUE,
             value |-> IF signed /\ t[1] = "-" THEN 0 - digits_value(body)
                       ELSE digits_value(body)]
       ELSE [ok |-> FALSE, value |-> 0]

\* str(n) for an integer n
RECURSIVE nat_str(_)
nat_str(n) ==
    IF n < 10 THEN <<ascii_digits[n + 1]>>
    ELSE nat_str(n \div 10) \o <<ascii_digits[(n % 10) + 1]>>
py_str(n) == IF n < 0 THEN <<"-">> \o nat_str(0 - n) ELSE nat_str(n)

\* dict.get / os.getenv(name, default)
getenv(d, name, default) == IF name \in DOMAIN d THEN d[name] ELSE default

-----------------------------------------------------------------------------
(* Program constants                                                       *)

STDIO == <<"s","t","d","i","o">>
SSE == <<"s","s","e">>
STREAMABLE_HTTP == <<"s","t","r","e","a","m","a","b","l","e","-","h","t","t","p">>

\* config.py: class TransportType(str, Enum)
TransportType == {STDIO, STREAMABLE_HTTP}
\* main.py: VALID_TRANSPORTS, DEFAULT_*
VALID_TRANSPORTS == {STDIO, SSE, STREAMABLE_HTTP}
DEFAULT_TRANSPORT == SSE
DEFAULT_HOST == "127.0.0.1"
DEFAULT_PORT == 8000
\* config.py: field defaults and the limits of mcp_port
mcp_transport_default == STREAMABLE_HTTP
mcp_host_default == "0.0.0.0"
mcp_port_default == 8000
mcp_port_ge == 1
mcp_port_le == 65535
\* main.py: the limits parse_config checks the port against
PORT_MIN == 1
PORT_MAX == 65535

-----------------------------------------------------------------------------
(* Inputs: what the environment, the .env file and the callers supply      *)

HTTP == <<"h","t","t","p">>

\* the transport names the inputs are built from: the three names the two
\* resolvers know between them, one name neither knows, and the empty text
TransportNames == {STDIO, SSE, STREAMABLE_HTTP, HTTP, <<>>}

\* which positions of a text of length n are written in upper case:
\* none, all, the first only, all but the first, every second one
UpperSets(n) == {{}, 1..n, {1}, 2..n, {k \in 1..n : k % 2 = 0}}
ApplyCase(s, U) == [i \in 1..Len(s) |-> IF i \in U THEN char_upper(s[i]) ELSE s[i]]
PadLeft(n) == [i \in 1..n |-> " "]
PadRight(n) == [i \in 1..n |-> IF i = 1 THEN "\t" ELSE " "]
Pads == {lr \in (0..MaxPad) \X (0..MaxPad) : lr[1] + lr[2] <= MaxPad}

TransportTexts ==
    UNION { { PadLeft(lr[1]) \o ApplyCase(b, U) \o PadRight(lr[2]) :
                U \in UpperSets(Len(b)), lr \in Pads } : b \in TransportNames }

PortInts == ((PORT_MIN - PortSlack)..(PORT_MIN + PortSlack))
            \cup ((PORT_MAX - PortSlack)..(PORT_MAX + PortSlack))
            \cup {3000}
\* port texts: the decimal text of every port input, and texts int() rejects
PortJunk == {<<"a","b","c">>, <<>>, <<"8","0","a">>}
PortTexts == {py_str(n) : n \in PortInts} \cup {<<"-","1">>} \cup PortJunk

Environs ==
    { t @@ h @@ p :
        t \in {<<>>} \cup {"MCP_TRANSPORT" :> x : x \in TransportTexts},
        h \in {<<>>, "MCP_HOST" :> "localhost"},
        p \in {<<>>} \cup {"MCP_PORT" :> x : x \in PortTexts} }

\* no .env file, or one that sets all three names
DotenvFiles ==
    { <<>>,
      ("MCP_TRANSPORT" :> STDIO) @@ ("MCP_HOST" :> "dotenv-host")
        @@ ("MCP_PORT" :> py_str(9000)) }

\* a Python value given for mcp_transport: a str or a TransportType member
Str(chars) == [cls |-> "str", value |-> chars]
Member(chars) == [cls |-> "TransportType", value |-> chars]

\* 'stdio', 'STDIO', '  stdio  ', 'streamable-http', 'Streamable-HTTP',
\* 'http', 'sse' and the two members of TransportType
KwTransports ==
    { Str(STDIO), Str(ApplyCase(STDIO, 1..Len(STDIO))),
      Str(PadLeft(2) \o STDIO \o PadLeft(2)), Str(STREAMABLE_HTTP),
      Str(ApplyCase(STREAMABLE_HTTP, {1} \cup (12..15))), Str(HTTP),
      Str(SSE), Member(STDIO), Member(STREAMABLE_HTTP) }

\* the keyword arguments MCPConfig is constructed with; as in the tests, a
\* keyword names the field (mcp_transport, mcp_host, mcp_port) and takes
\* precedence over the environment
KwargSets ==
    {<<>>}
    \cup { "mcp_transport" :> t : t \in KwTransports }
    \cup { "mcp_port" :> n : n \in PortInts }
    \cup { "mcp_host" :> h : h \in {"127.0.0.1"} }
    \cup { ("mcp_transport" :> Str(STDIO)) @@ ("mcp_host" :> "ignored-host")
             @@ ("mcp_port" :> n) : n \in PortInts }
    \cup { ("mcp_transport" :> Str(STREAMABLE_HTTP)) @@ ("mcp_host" :> "192.168.1.1")
             @@ ("mcp_port" :> 3000) }

-----------------------------------------------------------------------------
(* config.py                                                               *)

isinstance_TransportType(v) == v.cls = "TransportType"

\* validate_transport without the lower-casing
validate_transport_no_lower(v) ==
    IF isinstance_TransportType(v)
    THEN [ok |-> TRUE, value |-> v.value]
    ELSE LET n == str_strip(v.value)
         IN IF n \notin TransportType
            THEN [ok |-> FALSE, value |-> n]
            ELSE [ok |-> TRUE, value |-> n]

\* validate_transport falling back to the default instead of raising
validate_transport_fallback(v) ==
    IF isinstance_TransportType(v)
    THEN [ok |-> TRUE, value |-> v.value]
    ELSE LET n == str_strip(str_lower(v.value))
         IN IF n \notin TransportType
            THEN [ok |-> TRUE, value |-> mcp_transport_default]
            ELSE [ok |-> TRUE, value |-> n]

\* MCPConfig.validate_transport (mode="before"): the value it returns, or
\* the ValueError it raises
validate_transport(v) ==
    IF isinstance_TransportType(v)
    THEN [ok |-> TRUE, value |-> v.value]
    ELSE LET n == str_strip(str_lower(v.value))
             valid_transports == TransportType
         IN IF n \notin valid_transports
            THEN [ok |-> FALSE, value |-> n]
            ELSE [ok |-> TRUE, value |-> n]

\* the field's own validation that follows the "before" validator: the
\* returned text must be the value of a TransportType member
transport_field(v) ==
    LET r == validate_transport(v)
    IN IF r.ok /\ r.value \in TransportType
       THEN [ok |-> TRUE, value |-> Member(r.value)]
       ELSE [ok |-> FALSE, value |-> Member(<<>>)]

\* the range check with the upper limit excluded
port_in_range_exclusive(n) == n >= mcp_port_ge /\ n < mcp_port_le

\* mcp_port: Field(ge=1, le=65535)
port_in_range(n) == n >= mcp_port_ge /\ n <= mcp_port_le

\* mcp_port given as an int (keyword argument)
port_field_int(n) ==
    IF port_in_range(n) THEN [ok |-> TRUE, value |-> n] ELSE [ok |-> FALSE, value |-> 0]

\* mcp_port given as text (environment, .env): parsed as an integer first
port_field_text(text) ==
    LET r == py_int(text)
    IN IF r.ok THEN port_field_int(r.value) ELSE [ok |-> FALSE, value |-> 0]

validation_alias(field) ==
    CASE field = "mcp_transport" -> "MCP_TRANSPORT"
      [] field = "mcp_host" -> "MCP_HOST"
      [] field = "mcp_port" -> "MCP_PORT"

\* the sources with the .env file consulted before the environment
settings_source_dotenv_first(kwargs, env, dot, field) ==
    IF field \in DOMAIN kwargs THEN "init"
    ELSE IF validation_alias(field) \in DOMAIN dot THEN "dotenv"
    ELSE IF validation_alias(field) \in DOMAIN env THEN "env"
    ELSE "default"

\* where a field's value comes from: keyword arguments first, then the
\* environment, then the .env file, then the default
settings_source(kwargs, env, dot, field) ==
    IF field \in DOMAIN kwargs THEN "init"
    ELSE IF validation_alias(field) \in DOMAIN env THEN "env"
    ELSE IF validation_alias(field) \in DOMAIN dot THEN "dotenv"
    ELSE "default"

\* the text a field has in the given source
settings_text(env, dot, field, src) ==
    IF src = "env" THEN env[validation_alias(field)] ELSE dot[validation_alias(field)]

resolve_transport(kwargs, env, dot) ==
    LET src == settings_source(kwargs, env, dot, "mcp_transport")
    IN IF src = "default" THEN [ok |-> TRUE, value |-> Member(mcp_transport_default)]
       ELSE IF src = "init" THEN transport_field(kwargs["mcp_transport"])
       ELSE transport_field(Str(settings_text(env, dot, "mcp_transport", src)))

resolve_host(kwargs, env, dot) ==
    LET src == settings_source(kwargs, env, dot, "mcp_host")
    IN IF src = "default" THEN mcp_host_default
       ELSE IF src = "init" THEN kwargs["mcp_host"]
       ELSE settings_text(env, dot, "mcp_host", src)

resolve_port(kwargs, env, dot) ==
    LET src == settings_source(kwargs, env, dot, "mcp_port")
    IN IF src = "default" THEN [ok |-> TRUE, value |-> mcp_port_default]
       ELSE IF src = "init" THEN port_field_int(kwargs["mcp_port"])
       ELSE port_field_text(settings_text(env, dot, "mcp_port", src))

NoConfig == [mcp_transport |-> Member(<<>>), mcp_host |-> "", mcp_port |-> 0]

\* MCPConfig(**kwargs): every field is validated and all failures are
\* reported together in one ValidationError (a ValueError)
MCPConfig(kwargs, env, dot) ==
    LET t == resolve_transport(kwargs, env, dot)
        p == resolve_port(kwargs, env, dot)
        errors == (IF t.ok THEN {} ELSE {"mcp_transport"})
                  \cup (IF p.ok THEN {} ELSE {"mcp_port"})
    IN IF errors = {}
       THEN [state |-> "ok", via |-> "", exc |-> "", errors |-> {},
             config |-> [mcp_transport |-> t.value,
                         mcp_host |-> resolve_host(kwargs, env, dot),
                         mcp_port |-> p.value]]
       ELSE [state |-> "raised", via |-> "", exc |-> "ValidationError",
             errors |-> errors,
             config |-> NoConfig]

\* load_config(): MCPConfig() with any exception re-raised as ValueError
load_config(env, dot) ==
    LET r == MCPConfig(<<>>, env, dot)
    IN IF r.state = "ok" THEN r ELSE [r EXCEPT !.exc = "ValueError"]

\* to_run_config without the STDIO case
to_run_config_always_network(self) ==
    ("transport" :> self.mcp_transport.value) @@ ("host" :> self.mcp_host)
    @@ ("port" :> self.mcp_port)

\* to_run_config that leaves the port out
to_run_config_no_port(self) ==
    IF self.mcp_transport.value = STDIO
    THEN "transport" :> self.mcp_transport.value
    ELSE ("transport" :> self.mcp_transport.value) @@ ("host" :> self.mcp_host)

\* MCPConfig.to_run_config
to_run_config(self) ==
    LET transport_value ==
            IF isinstance_TransportType(self.mcp_transport)
            THEN self.mcp_transport.value
            ELSE self.mcp_transport.value   \* a plain str is its own text
    IN IF transport_value = STDIO
       THEN "transport" :> transport_value
       ELSE ("transport" :> transport_value) @@ ("host" :> self.mcp_host)
            @@ ("port" :> self.mcp_port)

-----------------------------------------------------------------------------
(* main.py: parse_config and main                                          *)

\* the port check of parse_config: int() of the text, then the range
parse_port(text) ==
    LET r == py_int(text)
    IN IF ~r.ok THEN [ok |-> FALSE, value |-> 0, why |-> "invalid literal for int()"]
       ELSE IF r.value < PORT_MIN \/ r.value > PORT_MAX
            THEN [ok |-> FALSE, value |-> 0, why |-> "Port must be between 1 and 65535"]
            ELSE [ok |-> TRUE, value |-> r.value, why |-> ""]

\* whether parse_config accepts the transport text
transport_accepted(transport) == transport \in VALID_TRANSPORTS

\* parse_config with the port block placed before the transport test
parse_config_port_first(env) ==
    LET transport == getenv(env, "MCP_TRANSPORT", DEFAULT_TRANSPORT)
        port == parse_port(getenv(env, "MCP_PORT", py_str(DEFAULT_PORT)))
    IN IF ~port.ok
       THEN [ok |-> FALSE, error |-> "Invalid port", why |-> port.why,
             config |-> <<>>]
       ELSE IF ~transport_accepted(transport)
            THEN [ok |-> FALSE, error |-> "Invalid transport", why |-> "",
                  config |-> <<>>]
            ELSE [ok |-> TRUE, error |-> "", why |-> "",
                  config |-> ("transport" :> transport)
                             @@ ("host" :> getenv(env, "MCP_HOST", DEFAULT_HOST))
                             @@ ("port" :> port.value)]

\* parse_config(): the dict it returns, or the ValueError it raises
parse_config(env) ==
    LET transport == getenv(env, "MCP_TRANSPORT", DEFAULT_TRANSPORT)
        port == parse_port(getenv(env, "MCP_PORT", py_str(DEFAULT_PORT)))
    IN IF ~transport_accepted(transport)
       THEN [ok |-> FALSE, error |-> "Invalid transport", why |-> "", config |-> <<>>]
       ELSE IF ~port.ok
            THEN [ok |-> FALSE, error |-> "Invalid port", why |-> port.why,
                  config |-> <<>>]
            ELSE [ok |-> TRUE, error |-> "", why |-> "",
                  config |-> ("transport" :> transport)
                             @@ ("host" :> getenv(env, "MCP_HOST", DEFAULT_HOST))
                             @@ ("port" :> port.value)]

NotParsed == [ok |-> FALSE, error |-> "", why |-> "", config |-> <<>>]
NoException == [cls |-> "", origin |-> "", message |-> ""]

\* main() calling parse_config() again after it raised
after_parse_retry(r) == IF r.ok THEN "announce" ELSE "start"

\* main(): where control goes after parse_config() returned or raised
after_parse(r) == IF r.ok THEN "announce" ELSE "except"

\* the outcomes of app.run(**config), a call into the framework
RunOutcomes == {"return", "ValueError", "RuntimeError"}

\* main(): config = parse_config()
MainParseConfig ==
    /\ pc = "start"
    /\ settings.state = "none"
    /\ LET r == parse_config(environ)
       IN /\ parsed' = r
          /\ pc' = after_parse(r)
          /\ caught' = IF r.ok THEN NoException
                       ELSE [cls |-> "ValueError", origin |-> "parse_config",
                             message |-> r.error]
    /\ parse_calls' = parse_calls + 1
    /\ UNCHANGED <<run_calls, stdout, stderr, exit_code>>
    /\ UNCHANGED <<inputVars, configVars, tasks>>

\* the two lines main() prints before it starts the server
announce_lines(config) ==
    << [line |-> "Starting MCP server with transport",
        values |-> <<config["transport"]>>],
       [line |-> "Host, Port", values |-> <<config["host"], config["port"]>>] >>

\* main(): the two print calls
MainAnnounce ==
    /\ pc = "announce"
    /\ stdout' = stdout \o announce_lines(parsed.config)
    /\ pc' = "run"
    /\ UNCHANGED <<parsed, caught, parse_calls, run_calls, stderr, exit_code>>
    /\ UNCHANGED <<inputVars, configVars, tasks>>

\* main(): app.run(**config) is entered
MainRun ==
    /\ pc = "run"
    /\ run_calls' = Append(run_calls, parsed.config)
    /\ pc' = "serving"
    /\ UNCHANGED <<parsed, caught, parse_calls, stdout, stderr, exit_code>>
    /\ UNCHANGED <<inputVars, configVars, tasks>>

\* app.run returns or raises; a ValueError is caught by main's except clause,
\* any other exception leaves main and ends the process with status 1
ServerStops ==
    /\ pc = "serving"
    /\ \E outcome \in RunOutcomes :
        /\ pc' = IF outcome = "ValueError" THEN "except" ELSE "exited"
        /\ caught' = IF outcome = "ValueError"
                     THEN [cls |-> "ValueError", origin |-> "app.run", message |-> ""]
                     ELSE caught
        /\ exit_code' = CASE outcome = "return" -> 0
                          [] outcome = "ValueError" -> exit_code
                          [] outcome = "RuntimeError" -> 1
    /\ UNCHANGED <<parsed, parse_calls, run_calls, stdout, stderr>>
    /\ UNCHANGED <<inputVars, configVars, tasks>>

\* main(): except ValueError: print to stderr, exit(1)
MainExcept ==
    /\ pc = "except"
    /\ stderr' = Append(stderr, [line |-> "Configuration error", error |-> caught.message])
    /\ exit_code' = 1
    /\ pc' = "exited"
    /\ UNCHANGED <<parsed, caught, parse_calls, run_calls, stdout>>
    /\ UNCHANGED <<inputVars, configVars, tasks>>

-----------------------------------------------------------------------------
(* main.py: the streaming tools, as async generators                       *)

\* the tool invocations that may be in progress at once
TaskIds == {"t1", "t2"}
ToolNames == {"countdown", "stream_sum"}
ToolArgs == (0 - MaxNeg)..MaxStart

\* len(range(start, stop, step)), step # 0
range_len(start, stop, step) ==
    IF step > 0
    THEN IF start < stop THEN ((stop - start - 1) \div step) + 1 ELSE 0
    ELSE IF start > stop THEN ((start - stop - 1) \div (0 - step)) + 1 ELSE 0

\* list(range(start, stop, step))
py_range(start, stop, step) ==
    [k \in 1..range_len(start, stop, step) |-> start + (k - 1) * step]

\* the countdown running down to 0 instead of 1
countdown_range_to_zero(start) == py_range(start, -1, -1)

\* countdown_tool: for i in range(start, 0, -1)
countdown_range(start) == py_range(start, 0, -1)
\* the summation stopping one short of n
stream_sum_range_exclusive(n) == py_range(1, n, 1)
\* stream_sum's range starting at 0
stream_sum_range_from_zero(n) == py_range(0, n + 1, 1)

\* stream_sum_tool: for i in range(1, n + 1)
stream_sum_range(n) == py_range(1, n + 1, 1)

tool_range(tool, arg) ==
    IF tool = "countdown" THEN countdown_range(arg) ELSE stream_sum_range(arg)

\* a task: the generator object of one invocation.
\*   at    : "created" (not started), "yield" (suspended at the yield in the
\*           loop), "sleep" (suspended in asyncio.sleep), "final" (suspended
\*           at the last yield), "done" (exhausted), "closed" (abandoned)
\*   k     : how many loop iterations have begun
\*   total : stream_sum_tool's local total
\*   out   : the elements yielded so far
NoTask == [tool |-> "", arg |-> 0, at |-> "none", k |-> 0, total |-> 0, out |-> <<>>]
NewTask(tool, arg) ==
    [tool |-> tool, arg |-> arg, at |-> "created", k |-> 0, total |-> 0, out |-> <<>>]

RECURSIVE sum_of_totals(_)
sum_of_totals(S) ==
    IF S = {} THEN 0
    ELSE LET u == CHOOSE x \in S : TRUE
         IN tasks[u].total + sum_of_totals(S \ {u})

\* run_to_yield with total kept in one module-level variable that every
\* invocation adds to
run_to_yield_shared_total(task) ==
    LET r == tool_range(task.tool, task.arg)
    IN IF task.k < Len(r)
       THEN LET i == r[task.k + 1]
                total == IF task.tool = "stream_sum"
                         THEN sum_of_totals(DOMAIN tasks) + i ELSE task.total
            IN [task EXCEPT
                  !.k = task.k + 1,
                  !.total = total,
                  !.at = "yield",
                  !.out = Append(task.out,
                            IF task.tool = "countdown" THEN "count" :> i
                            ELSE "partial_sum" :> total)]
       ELSE [task EXCEPT
               !.at = "final",
               !.out = Append(task.out,
                         IF task.tool = "countdown" THEN "done" :> TRUE
                         ELSE "final_sum" :> task.total)]

\* run_to_yield with the yield after the loop missing: the body returns
\* once the range is exhausted
run_to_yield_no_terminal(task) ==
    LET r == tool_range(task.tool, task.arg)
    IN IF task.k < Len(r)
       THEN LET i == r[task.k + 1]
                total == IF task.tool = "stream_sum" THEN task.total + i ELSE task.total
            IN [task EXCEPT
                  !.k = task.k + 1,
                  !.total = total,
                  !.at = "yield",
                  !.out = Append(task.out,
                            IF task.tool = "countdown" THEN "count" :> i
                            ELSE "partial_sum" :> total)]
       ELSE [task EXCEPT !.at = "done"]

\* the generator runs from the head of the for loop to its next yield
run_to_yield(task) ==
    LET r == tool_range(task.tool, task.arg)
    IN IF task.k < Len(r)
       THEN LET i == r[task.k + 1]
                total == IF task.tool = "stream_sum" THEN task.total + i ELSE task.total
            IN [task EXCEPT
                  !.k = task.k + 1,
                  !.total = total,
                  !.at = "yield",
                  !.out = Append(task.out,
                            IF task.tool = "countdown" THEN "count" :> i
                            ELSE "partial_sum" :> total)]
       ELSE [task EXCEPT
               !.at = "final",
               !.out = Append(task.out,
                         IF task.tool = "countdown" THEN "done" :> TRUE
                         ELSE "final_sum" :> task.total)]

\* a client calls a tool: the generator object is created
Invoke(t) ==
    /\ tasks[t].at = "none"
    /\ \E tool \in ToolNames, arg \in ToolArgs :
        tasks' = [tasks EXCEPT ![t] = NewTask(tool, arg)]
    /\ UNCHANGED <<inputVars, configVars, mainVars>>

\* the first element is requested: the body runs to its first yield
Start(t) ==
    /\ tasks[t].at = "created"
    /\ tasks' = [tasks EXCEPT ![t] = run_to_yield(tasks[t])]
    /\ UNCHANGED <<inputVars, configVars, mainVars>>

\* the next element is requested after a yield in the loop: the body goes on
\* to await asyncio.sleep(...)
Resume(t) ==
    /\ tasks[t].at = "yield"
    /\ tasks' = [tasks EXCEPT ![t].at = "sleep"]
    /\ UNCHANGED <<inputVars, configVars, mainVars>>

\* the sleep is over: the loop goes on to its next yield
Wake(t) ==
    /\ tasks[t].at = "sleep"
    /\ tasks' = [tasks EXCEPT ![t] = run_to_yield(tasks[t])]
    /\ UNCHANGED <<inputVars, configVars, mainVars>>

\* the next element is requested after the last yield: the body returns and
\* the generator is exhausted
Finish(t) ==
    /\ tasks[t].at = "final"
    /\ tasks' = [tasks EXCEPT ![t].at = "done"]
    /\ UNCHANGED <<inputVars, configVars, mainVars>>

\* the framework abandons the invocation (client gone): the generator is
\* closed where it is suspended and yields nothing more
Abandon(t) ==
    /\ tasks[t].at \in {"created", "yield", "sleep", "final"}
    /\ tasks' = [tasks EXCEPT ![t].at = "closed"]
    /\ UNCHANGED <<inputVars, configVars, mainVars>>

-----------------------------------------------------------------------------
(* Uses of config.py: one configuration object per run                     *)

NoSettings == [state |-> "none", via |-> "", exc |-> "", errors |-> {},
               config |-> NoConfig]

\* MCPConfig(**kwargs)
Construct ==
    /\ pc = "start"
    /\ settings.state = "none"
    /\ \E kwargs \in KwargSets :
        /\ init_kwargs' = kwargs
        /\ settings' = [MCPConfig(kwargs, environ, dotenv) EXCEPT !.via = "MCPConfig"]
    /\ UNCHANGED <<run_config, observed, inputVars, mainVars, tasks>>

\* load_config()
LoadConfig ==
    /\ pc = "start"
    /\ settings.state = "none"
    /\ init_kwargs' = <<>>
    /\ settings' = [load_config(environ, dotenv) EXCEPT !.via = "load_config"]
    /\ UNCHANGED <<run_config, observed, inputVars, mainVars, tasks>>

\* config.to_run_config()
ToRunConfig ==
    /\ settings.state = "ok"
    /\ ~run_config.set
    /\ run_config' = [set |-> TRUE, value |-> to_run_config(settings.config)]
    /\ UNCHANGED <<init_kwargs, settings, observed, inputVars, mainVars, tasks>>

\* MCPConfig.log_config: the three values logged; a transport without
\* .value (a plain str) raises AttributeError
log_config(self) ==
    IF isinstance_TransportType(self.mcp_transport)
    THEN [call |-> "log_config", raised |-> "",
          values |-> <<self.mcp_transport.value, self.mcp_host, self.mcp_port>>]
    ELSE [call |-> "log_config", raised |-> "AttributeError", values |-> <<>>]

\* MCPConfig.__repr__
config_repr(self) ==
    IF isinstance_TransportType(self.mcp_transport)
    THEN [call |-> "repr", raised |-> "",
          values |-> <<self.mcp_transport.value, self.mcp_host, self.mcp_port>>]
    ELSE [call |-> "repr", raised |-> "AttributeError", values |-> <<>>]

NotObserved == [call |-> "", raised |-> "", values |-> <<>>]

\* config.log_config()
LogConfig ==
    /\ settings.state = "ok"
    /\ observed' = log_config(settings.config)
    /\ UNCHANGED <<init_kwargs, settings, run_config, inputVars, mainVars, tasks>>

\* repr(config)
Repr ==
    /\ settings.state = "ok"
    /\ observed' = config_repr(settings.config)
    /\ UNCHANGED <<init_kwargs, settings, run_config, inputVars, mainVars, tasks>>

\* the values a caller assigns to an attribute of the object
AssignedPorts == {0, 9000}
AssignedTransports == {Str(HTTP)}

\* config.mcp_port = n, config.mcp_transport = v: model_config sets neither
\* frozen nor validate_assignment, so the value is stored as given
SetAttr ==
    /\ settings.state = "ok"
    /\ \/ \E n \in AssignedPorts :
             settings' = [settings EXCEPT !.config.mcp_port = n]
       \/ \E v \in AssignedTransports :
             settings' = [settings EXCEPT !.config.mcp_transport = v]
    /\ UNCHANGED <<init_kwargs, run_config, observed, inputVars, mainVars, tasks>>

-----------------------------------------------------------------------------
(* The configuration specification                                         *)

InitMain ==
    /\ pc = "start"
    /\ parsed = NotParsed
    /\ caught = NoException
    /\ parse_calls = 0
    /\ run_calls = <<>>
    /\ stdout = <<>>
    /\ stderr = <<>>
    /\ exit_code = -1

InitConfig ==
    /\ init_kwargs = <<>>
    /\ settings = NoSettings
    /\ run_config = [set |-> FALSE, value |-> <<>>]
    /\ observed = NotObserved

Init ==
    /\ environ \in Environs
    /\ dotenv \in DotenvFiles
    /\ InitConfig
    /\ InitMain
    /\ tasks = [t \in TaskIds |-> NoTask]

Next ==
    \/ Construct
    \/ LoadConfig
    \/ ToRunConfig
    \/ MainParseConfig
    \/ MainAnnounce
    \/ MainRun
    \/ ServerStops
    \/ MainExcept

Spec == Init /\ [][Next]_vars

-----------------------------------------------------------------------------
(* The lifecycle specification: one configuration object is constructed    *)
(* and then used through its methods and attributes                        *)

\* environments with the transport and the port absent or valid
LifecycleEnvirons ==
    { e \in Environs :
        /\ "MCP_TRANSPORT" \in DOMAIN e => e["MCP_TRANSPORT"] = STDIO
        /\ "MCP_PORT" \in DOMAIN e => e["MCP_PORT"] = py_str(PORT_MAX) }

InitLifecycle ==
    /\ environ \in LifecycleEnvirons
    /\ dotenv = <<>>
    /\ InitConfig
    /\ InitMain
    /\ tasks = [t \in TaskIds |-> NoTask]

NextLifecycle ==
    \/ Construct
    \/ LoadConfig
    \/ ToRunConfig
    \/ LogConfig
    \/ Repr
    \/ SetAttr

SpecLifecycle == InitLifecycle /\ [][NextLifecycle]_vars

-----------------------------------------------------------------------------
(* The tools specification: the server is running with the default         *)
(* configuration and clients invoke the streaming tools                    *)

InitTools ==
    /\ environ = <<>>
    /\ dotenv = <<>>
    /\ InitConfig
    /\ parsed = parse_config(<<>>)
    /\ caught = NoException
    /\ parse_calls = 1
    /\ stdout = announce_lines(parse_config(<<>>).config)
    /\ stderr = <<>>
    /\ run_calls = <<parse_config(<<>>).config>>
    /\ pc = "serving"
    /\ exit_code = -1
    /\ tasks = [t \in TaskIds |-> NoTask]

NextTools ==
    \E t \in TaskIds :
        \/ Invoke(t)
        \/ Start(t)
        \/ Resume(t)
        \/ Wake(t)
        \/ Finish(t)
        \/ Abandon(t)

SpecTools == InitTools /\ [][NextTools]_vars

\* the same, with every invocation that is not abandoned driven on: the
\* framework keeps requesting the next element and the event loop ends
\* every sleep
SpecToolsFair ==
    /\ InitTools
    /\ [][NextTools]_vars
    /\ \A t \in TaskIds :
          /\ WF_vars(Start(t))
          /\ WF_vars(Resume(t))
          /\ WF_vars(Wake(t))
          /\ WF_vars(Finish(t))

-----------------------------------------------------------------------------
(* Vocabulary of the properties                                            *)

\* raw is the name written in some letter case with whitespace around it
Spells(raw, name) ==
    \E l \in 0..Len(raw) :
        /\ l + Len(name) <= Len(raw)
        /\ \A i \in 1..l : raw[i] \in whitespace
        /\ \A i \in 1..Len(name) : raw[l + i] \in {name[i], char_upper(name[i])}
        /\ \A i \in (l + Len(name) + 1)..Len(raw) : raw[i] \in whitespace

\* the transport the configuration object was given, and by whom
TransportIsGiven ==
    \/ "mcp_transport" \in DOMAIN init_kwargs
    \/ "MCP_TRANSPORT" \in DOMAIN environ
    \/ "MCP_TRANSPORT" \in DOMAIN dotenv
GivenTransport ==
    IF "mcp_transport" \in DOMAIN init_kwargs THEN init_kwargs["mcp_transport"]
    ELSE IF "MCP_TRANSPORT" \in DOMAIN environ THEN Str(environ["MCP_TRANSPORT"])
    ELSE Str(dotenv["MCP_TRANSPORT"])

\* the port text the configuration object read, when no keyword gave the port
PortTextIsGiven ==
    /\ "mcp_port" \notin DOMAIN init_kwargs
    /\ "MCP_PORT" \in DOMAIN environ \/ "MCP_PORT" \in DOMAIN dotenv
GivenPortText ==
    IF "MCP_PORT" \in DOMAIN environ THEN environ["MCP_PORT"] ELSE dotenv["MCP_PORT"]

\* the integers whose decimal text occurs among the inputs
KnownPortInts == PortInts \cup {-1, 9000}
InPortRange(n) == n \in 1..65535

\* exception classes that are ValueError (pydantic's ValidationError is one)
ValueErrors == {"ValueError", "ValidationError"}

Absent(name) == name \notin DOMAIN environ /\ name \notin DOMAIN dotenv

IsCount(e, n) == DOMAIN e = {"count"} /\ e["count"] = n
IsDone(e) == DOMAIN e = {"done"} /\ e["done"] = TRUE

-----------------------------------------------------------------------------
(* Properties                                                              *)

\* C1: with transport stdio, to_run_config() returns a mapping whose only
\* key is 'transport', with value 'stdio', whatever host and port the
\* configuration holds.
C1_StdioRunConfigOnlyTransport ==
    (run_config.set /\ settings.config.mcp_transport.value = STDIO) =>
        /\ DOMAIN run_config.value = {"transport"}
        /\ run_config.value["transport"] = STDIO

\* C1 witness: stdio was configured together with a host and the largest
\* port, and to_run_config() has returned.
C1_Witness ==
    /\ run_config.set
    /\ settings.config.mcp_transport.value = STDIO
    /\ "mcp_host" \in DOMAIN init_kwargs
    /\ settings.config.mcp_host = "ignored-host"
    /\ settings.config.mcp_port = 65535

\* C2: every mapping main() hands to app.run includes 'transport', and
\* includes 'host' and 'port' exactly when the transport is not stdio.
C2_RunParametersFollowTransport ==
    \A i \in 1..Len(run_calls) :
        LET c == run_calls[i]
        IN /\ "transport" \in DOMAIN c
           /\ c["transport"] = STDIO => DOMAIN c = {"transport"}
           /\ c["transport"] # STDIO => DOMAIN c = {"transport", "host", "port"}

\* C3: MCPConfig accepts every spelling (letter case, surrounding
\* whitespace) of a supported transport and resolves it to the canonical
\* lowercase, trimmed name.
C3_TransportSpellingsNormalised ==
    (settings.state # "none" /\ TransportIsGiven /\ GivenTransport.cls = "str") =>
        \A name \in TransportType :
            Spells(GivenTransport.value, name) =>
                /\ "mcp_transport" \notin settings.errors
                /\ settings.state = "ok" =>
                      settings.config.mcp_transport.value = name

\* C3 witness: load_config() succeeded on an MCP_TRANSPORT that is padded,
\* not all lowercase, and spells streamable-http.
C3_Witness ==
    /\ settings.state = "ok"
    /\ settings.via = "load_config"
    /\ "MCP_TRANSPORT" \in DOMAIN environ
    /\ Len(environ["MCP_TRANSPORT"]) > Len(STREAMABLE_HTTP)
    /\ environ["MCP_TRANSPORT"][2] = "S"
    /\ settings.config.mcp_transport.value = STREAMABLE_HTTP

\* C4: parse_config accepts an MCP_TRANSPORT that differs from a supported
\* transport only in letter case or surrounding whitespace, and returns the
\* canonical name.
C4_ParseConfigNormalises ==
    (parse_calls > 0 /\ "MCP_TRANSPORT" \in DOMAIN environ) =>
        \A name \in VALID_TRANSPORTS :
            Spells(environ["MCP_TRANSPORT"], name) =>
                /\ parsed.error # "Invalid transport"
                /\ parsed.ok => parsed.config["transport"] = name

\* C5: a transport text that spells no member of TransportType makes
\* MCPConfig(...) and load_config() raise a ValueError naming the transport,
\* leaving no configuration object and no run mapping; an MCP_TRANSPORT that
\* is not in VALID_TRANSPORTS makes parse_config raise the invalid-transport
\* ValueError, leaving no mapping and no call of app.run.
C5_UnsupportedTransportRejected ==
    /\ (/\ settings.state # "none"
        /\ TransportIsGiven
        /\ GivenTransport.cls = "str"
        /\ \A name \in TransportType : ~Spells(GivenTransport.value, name)) =>
            /\ settings.state = "raised"
            /\ settings.exc \in ValueErrors
            /\ "mcp_transport" \in settings.errors
            /\ settings.config = NoConfig
            /\ ~run_config.set
    /\ (/\ parse_calls > 0
        /\ "MCP_TRANSPORT" \in DOMAIN environ
        /\ environ["MCP_TRANSPORT"] \notin VALID_TRANSPORTS) =>
            /\ ~parsed.ok
            /\ parsed.error = "Invalid transport"
            /\ DOMAIN parsed.config = {}
            /\ run_calls = <<>>

\* C5 witness: load_config() raised on MCP_TRANSPORT=sse, a name that
\* TransportType does not have, with nothing else wrong.
C5_Witness ==
    /\ settings.state = "raised"
    /\ settings.via = "load_config"
    /\ "MCP_TRANSPORT" \in DOMAIN environ
    /\ environ["MCP_TRANSPORT"] = SSE
    /\ settings.errors = {"mcp_transport"}

\* what C6 says of a configuration object that was given the port n
PortRule(n) ==
    IF InPortRange(n)
    THEN /\ "mcp_port" \notin settings.errors
         /\ settings.state = "ok" => settings.config.mcp_port = n
    ELSE /\ settings.state = "raised"
         /\ settings.exc \in ValueErrors
         /\ "mcp_port" \in settings.errors

\* what C6 says of parse_config when MCP_PORT is the decimal text of n
ParsePortRule(n, transportOk) ==
    IF InPortRange(n)
    THEN transportOk => (parsed.ok /\ parsed.config["port"] = n)
    ELSE /\ ~parsed.ok
         /\ transportOk => parsed.error = "Invalid port"

\* C6: a port outside [1,65535] or a non-numeric port text makes resolution
\* fail, with the invalid-port error (in parse_config: whenever the
\* transport was accepted); a port inside [1,65535], the limits included,
\* is accepted and the resolved port is that number.
C6_PortRange ==
    /\ (settings.state # "none" /\ "mcp_port" \in DOMAIN init_kwargs) =>
            PortRule(init_kwargs["mcp_port"])
    /\ (settings.state # "none" /\ PortTextIsGiven) =>
            /\ \A n \in KnownPortInts : GivenPortText = py_str(n) => PortRule(n)
            /\ GivenPortText \in PortJunk =>
                  (settings.state = "raised" /\ "mcp_port" \in settings.errors)
    /\ (parse_calls > 0 /\ "MCP_PORT" \in DOMAIN environ) =>
            LET transportOk == \/ "MCP_TRANSPORT" \notin DOMAIN environ
                               \/ environ["MCP_TRANSPORT"] \in VALID_TRANSPORTS
            IN /\ \A n \in KnownPortInts :
                     environ["MCP_PORT"] = py_str(n) => ParsePortRule(n, transportOk)
               /\ environ["MCP_PORT"] \in PortJunk =>
                     /\ ~parsed.ok
                     /\ transportOk => parsed.error = "Invalid port"

\* C6 witness: MCPConfig was given the port 65535 as a keyword and kept it.
C6_Witness ==
    /\ settings.state = "ok"
    /\ "mcp_port" \in DOMAIN init_kwargs
    /\ init_kwargs["mcp_port"] = 65535
    /\ settings.config.mcp_port = 65535

\* C7: with a transport other than stdio, to_run_config() returns exactly
\* the keys transport, host and port, with the configured values unchanged.
C7_NetworkRunConfig ==
    (run_config.set /\ settings.config.mcp_transport.value # STDIO) =>
        /\ DOMAIN run_config.value = {"transport", "host", "port"}
        /\ run_config.value["transport"] = settings.config.mcp_transport.value
        /\ run_config.value["host"] = settings.config.mcp_host
        /\ run_config.value["port"] = settings.config.mcp_port
        /\ "mcp_host" \in DOMAIN init_kwargs =>
              run_config.value["host"] = init_kwargs["mcp_host"]
        /\ "mcp_port" \in DOMAIN init_kwargs =>
              run_config.value["port"] = init_kwargs["mcp_port"]

\* C7 witness: streamable-http / 192.168.1.1 / 3000 was configured and
\* to_run_config() has returned.
C7_Witness ==
    /\ run_config.set
    /\ "mcp_host" \in DOMAIN init_kwargs
    /\ run_config.value["transport"] = STREAMABLE_HTTP
    /\ run_config.value["host"] = "192.168.1.1"
    /\ run_config.value["port"] = 3000

\* C8: load_config() resolves each setting from its own environment
\* variable when that variable is set (whatever the other two variables and
\* the .env file hold), and to its default (streamable-http, 0.0.0.0, 8000)
\* when the setting is absent.
C8_EnvironmentThenDefault ==
    (settings.via = "load_config" /\ settings.state = "ok") =>
        LET c == settings.config
        IN /\ "MCP_TRANSPORT" \in DOMAIN environ =>
                 Spells(environ["MCP_TRANSPORT"], c.mcp_transport.value)
           /\ "MCP_HOST" \in DOMAIN environ => c.mcp_host = environ["MCP_HOST"]
           /\ "MCP_PORT" \in DOMAIN environ => environ["MCP_PORT"] = py_str(c.mcp_port)
           /\ Absent("MCP_TRANSPORT") => c.mcp_transport.value = STREAMABLE_HTTP
           /\ Absent("MCP_HOST") => c.mcp_host = "0.0.0.0"
           /\ Absent("MCP_PORT") => c.mcp_port = 8000

\* C8 witness: only MCP_PORT is set; load_config() took the port from it
\* and the other two settings from their defaults.
C8_Witness ==
    /\ settings.via = "load_config"
    /\ settings.state = "ok"
    /\ DOMAIN environ = {"MCP_PORT"}
    /\ DOMAIN dotenv = {}
    /\ settings.config.mcp_port = 3000
    /\ settings.config.mcp_host = "0.0.0.0"
    /\ settings.config.mcp_transport.value = STREAMABLE_HTTP

\* C9: main() resolves the configuration once, before the server is
\* started; after a failed resolution app.run is never called, the
\* diagnostic is written and the exit status is 1; after a successful one
\* app.run is called exactly once, with the resolved mapping.
C9_ResolveThenRun ==
    /\ parse_calls <= 1
    /\ Len(run_calls) <= 1
    /\ run_calls # <<>> =>
          (parse_calls = 1 /\ parsed.ok /\ run_calls[1] = parsed.config)
    /\ (parse_calls = 1 /\ ~parsed.ok) =>
          /\ run_calls = <<>>
          /\ pc \in {"except", "exited"}
          /\ pc = "exited" =>
                /\ exit_code = 1
                /\ Len(stderr) = 1
                /\ stderr[1].line = "Configuration error"
                /\ stderr[1].error = parsed.error
    /\ (parse_calls = 1 /\ parsed.ok /\ pc \in {"serving", "except", "exited"}) =>
          Len(run_calls) = 1

\* C9 witness: main() has exited after parse_config() raised the
\* invalid-port error.
C9_Witness ==
    /\ pc = "exited"
    /\ parse_calls = 1
    /\ parsed.error = "Invalid port"
    /\ exit_code = 1
    /\ run_calls = <<>>

\* C10: an invocation of countdown(start), start >= 0, yields the counts
\* start, start-1, ..., 1 in this order and then {done: true}: start+1
\* elements when it is exhausted, and a prefix of them before.
C10_CountdownSequence ==
    \A t \in TaskIds :
        (tasks[t].tool = "countdown" /\ tasks[t].arg >= 0) =>
            /\ Len(tasks[t].out) <= tasks[t].arg + 1
            /\ \A k \in 1..Len(tasks[t].out) :
                  IF k <= tasks[t].arg
                  THEN IsCount(tasks[t].out[k], tasks[t].arg - k + 1)
                  ELSE IsDone(tasks[t].out[k])
            /\ tasks[t].at \in {"final", "done"} =>
                  Len(tasks[t].out) = tasks[t].arg + 1

\* C10 witness: countdown(5) is exhausted after six elements.
C10_Witness ==
    \E t \in TaskIds :
        /\ tasks[t].tool = "countdown"
        /\ tasks[t].arg = 5
        /\ tasks[t].at = "done"
        /\ Len(tasks[t].out) = 6

\* the sum 1 + 2 + ... + i
Triangular(i) == (i * (i + 1)) \div 2
IsPartialSum(e, n) == DOMAIN e = {"partial_sum"} /\ e["partial_sum"] = n
IsFinalSum(e, n) == DOMAIN e = {"final_sum"} /\ e["final_sum"] = n

\* C11: an invocation of stream_sum(n), n >= 0, yields for i = 1..n in order
\* {partial_sum: 1+...+i} and then {final_sum: 1+...+n}: n+1 elements when
\* it is exhausted, and a prefix of them before.
C11_StreamSumSequence ==
    \A t \in TaskIds :
        (tasks[t].tool = "stream_sum" /\ tasks[t].arg >= 0) =>
            /\ Len(tasks[t].out) <= tasks[t].arg + 1
            /\ \A i \in 1..Len(tasks[t].out) :
                  IF i <= tasks[t].arg
                  THEN IsPartialSum(tasks[t].out[i], Triangular(i))
                  ELSE IsFinalSum(tasks[t].out[i], Triangular(tasks[t].arg))
            /\ tasks[t].at \in {"final", "done"} =>
                  Len(tasks[t].out) = tasks[t].arg + 1

\* C11 witness: stream_sum(5) is exhausted after 1, 3, 6, 10, 15 and the
\* final sum 15.
C11_Witness ==
    \E t \in TaskIds :
        /\ tasks[t].tool = "stream_sum"
        /\ tasks[t].arg = 5
        /\ tasks[t].at = "done"
        /\ Len(tasks[t].out) = 6
        /\ IsPartialSum(tasks[t].out[4], 10)
        /\ IsFinalSum(tasks[t].out[6], 15)

\* e is the idx-th element of the sequence that tool(arg) yields when it is
\* the only invocation
IsSoloElement(tool, arg, idx, e) ==
    LET n == IF arg > 0 THEN arg ELSE 0
    IN IF tool = "countdown"
       THEN IF idx <= n THEN IsCount(e, arg - idx + 1) ELSE idx = n + 1 /\ IsDone(e)
       ELSE IF idx <= n THEN IsPartialSum(e, Triangular(idx))
            ELSE idx = n + 1 /\ IsFinalSum(e, Triangular(n))

\* what a step may do to the invocation t it changes
OwnStep(t) ==
    /\ \A u \in TaskIds \ {t} : tasks'[u] = tasks[u]
    /\ IF tasks[t].at = "none"
       THEN tasks'[t].out = <<>>
       ELSE /\ tasks'[t].tool = tasks[t].tool
            /\ tasks'[t].arg = tasks[t].arg
            /\ \/ tasks'[t].out = tasks[t].out
               \/ /\ Len(tasks'[t].out) = Len(tasks[t].out) + 1
                  /\ SubSeq(tasks'[t].out, 1, Len(tasks[t].out)) = tasks[t].out
                  /\ IsSoloElement(tasks[t].tool, tasks[t].arg, Len(tasks'[t].out),
                                   tasks'[t].out[Len(tasks'[t].out)])

\* C12: however the steps of concurrent invocations interleave, a step
\* changes one invocation only, and it either yields nothing or appends the
\* next element of the sequence that invocation yields when run alone; this
\* holds also after another invocation was abandoned.
C12_InvocationsIndependent ==
    [][\A t \in TaskIds : tasks'[t] # tasks[t] => OwnStep(t)]_vars

\* C12 witness: a countdown was abandoned after two elements while a
\* stream_sum(3) invoked beside it ran to exhaustion.
C12_Witness ==
    \E t, u \in TaskIds :
        /\ tasks[t].tool = "countdown"
        /\ tasks[t].at = "closed"
        /\ Len(tasks[t].out) = 2
        /\ tasks[u].tool = "stream_sum"
        /\ tasks[u].arg = 3
        /\ tasks[u].at = "done"
        /\ Len(tasks[u].out) = 4

\* C13: once constructed, a configuration object keeps a transport of
\* TransportType and a port in [1,65535], both equal to the values it was
\* constructed with, through to_run_config, log_config, repr and attribute
\* assignment.
C13_ConfigImmutable ==
    settings.state = "ok" =>
        LET built == MCPConfig(init_kwargs, environ, dotenv).config
        IN /\ settings.config.mcp_transport.value \in TransportType
           /\ settings.config.mcp_port \in 1..65535
           /\ settings.config.mcp_transport = built.mcp_transport
           /\ settings.config.mcp_port = built.mcp_port

IsTerminal(e) == DOMAIN e = {"done"} \/ DOMAIN e = {"final_sum"}
TerminalEmitted(t) ==
    Len(tasks[t].out) > 0 /\ IsTerminal(tasks[t].out[Len(tasks[t].out)])

\* a terminal element occurs only as the last element, and an exhausted
\* invocation has yielded it
TerminalOnceAndLast ==
    \A t \in TaskIds :
        /\ \A i \in 1..Len(tasks[t].out) :
              IsTerminal(tasks[t].out[i]) => i = Len(tasks[t].out)
        /\ tasks[t].at \in {"final", "done"} => TerminalEmitted(t)
        /\ TerminalEmitted(t) => tasks[t].at \in {"final", "done", "closed"}

\* C14: every invocation of countdown or stream_sum, whatever its integer
\* argument, that keeps being resumed (is not abandoned) eventually yields
\* its terminal element; the terminal element is yielded once and nothing is
\* yielded after it.
C14_TerminalElement ==
    /\ []TerminalOnceAndLast
    /\ \A t \in TaskIds :
          (tasks[t].at = "created") ~> (tasks[t].at = "closed" \/ TerminalEmitted(t))

\* C14 witness: a countdown(2) and a stream_sum(-1) have both run to
\* exhaustion, each ending with its terminal element.
C14_Witness ==
    \E t, u \in TaskIds :
        /\ tasks[t].tool = "countdown" /\ tasks[t].arg = 2 /\ tasks[t].at = "done"
        /\ tasks[u].tool = "stream_sum" /\ tasks[u].arg = -1 /\ tasks[u].at = "done"
        /\ TerminalEmitted(t)
        /\ TerminalEmitted(u)

\* C15: with an argument <= 0 the loop body never runs: the invocation
\* is never suspended at a yield in the loop nor in asyncio.sleep, yields
\* no {count: ...} or {partial_sum: ...}, and once past its first step has
\* yielded exactly one element, {done: true} for countdown and
\* {final_sum: 0} for stream_sum.
C15_NonPositiveArgument ==
    \A t \in TaskIds :
        (tasks[t].at # "none" /\ tasks[t].arg <= 0) =>
            /\ tasks[t].at \in {"created", "final", "done", "closed"}
            /\ tasks[t].k = 0
            /\ Len(tasks[t].out) <= 1
            /\ \A i \in 1..Len(tasks[t].out) :
                  IF tasks[t].tool = "countdown"
                  THEN IsDone(tasks[t].out[i])
                  ELSE IsFinalSum(tasks[t].out[i], 0)
            /\ tasks[t].at \in {"final", "done"} => Len(tasks[t].out) = 1

\* C15 witness: countdown(0) and stream_sum(-1) are both exhausted after
\* one element each.
C15_Witness ==
    \E t, u \in TaskIds :
        /\ tasks[t].tool = "countdown" /\ tasks[t].arg = 0 /\ tasks[t].at = "done"
        /\ tasks[u].tool = "stream_sum" /\ tasks[u].arg = -1 /\ tasks[u].at = "done"
        /\ tasks[t].out = <<"done" :> TRUE>>
        /\ tasks[u].out = <<"final_sum" :> 0>>

\* C16: parse_config tests the transport before it converts the port: an
\* unsupported MCP_TRANSPORT gives the invalid-transport error whatever
\* MCP_PORT holds, and the invalid-port error occurs only with an accepted
\* transport.
C16_TransportBeforePort ==
    parse_calls > 0 =>
        LET unsupported == /\ "MCP_TRANSPORT" \in DOMAIN environ
                           /\ environ["MCP_TRANSPORT"] \notin VALID_TRANSPORTS
        IN /\ unsupported =>
                 /\ ~parsed.ok
                 /\ parsed.error = "Invalid transport"
                 /\ caught.message = "Invalid transport"
           /\ parsed.error = "Invalid port" => ~unsupported

\* C16 witness: MCP_TRANSPORT is 'http' and MCP_PORT is 'abc'; parse_config
\* raised the invalid-transport error.
C16_Witness ==
    /\ parse_calls > 0
    /\ "MCP_TRANSPORT" \in DOMAIN environ
    /\ environ["MCP_TRANSPORT"] = HTTP
    /\ "MCP_PORT" \in DOMAIN environ
    /\ environ["MCP_PORT"] = <<"a","b","c">>
    /\ parsed.error = "Invalid transport"

====
